---------------------------- MODULE Spec2Model ----------------------------
(***************************************************************************)
(* State-machine model of the X-protocol engine of mysql-connector-cpp:    *)
(* Protocol_impl with its send slot m_snd_op and receive slot m_rcv_op,    *)
(* the send operation Op_snd and the staged receive operation Op_rcv       *)
(* (src/include/result.h).  An incoming byte stream carries a sequence of  *)
(* frames (5-byte header, then payload); the caller drives the engine with *)
(* snd_start, rcv_start, cont and wait.  Beside the engine, the result     *)
(* objects of the API (BaseResult, same file) and the null-safe processor  *)
(* wrappers Safe_prc (src/cdk/include/mysql/cdk/protocol/mysqlx_expr.h).   *)
(***************************************************************************)
EXTENDS Integers, Sequences, FiniteSets, TLC

VARIABLES
  wire,        \* the frames the peer sends, in order (fixed by Init)
  consumed,    \* number of bytes read from the stream so far
  proto,       \* Protocol_impl read side: m_msg_state, m_rd_op, m_msg_type, m_msg_size
  m_rcv_op,    \* Protocol_impl::m_rcv_op (NoOp or the Op_rcv object)
  m_snd_op,    \* Protocol_impl::m_snd_op (NoOp or the Op_snd object)
  wr,          \* Protocol_impl write side: m_wr_buf contents and m_wr_op
  n_live,      \* number of constructed and not yet destroyed ops, per kind
  calls,       \* the callbacks made on the processor, in order
  last,        \* the last API call made by the caller and its outcome
  results,     \* the BaseResult objects: m_impl, m_owns_impl, m_pos of each
  safe         \* a Safe_prc wrapper: the processor it wraps (m_prc)

vars == <<wire, consumed, proto, m_rcv_op, m_snd_op, wr, n_live, calls, last,
          results, safe>>

-----------------------------------------------------------------------------
(* Bounds *)

\* Largest number of frames the peer puts on the stream.
MaxFrames == 3

\* The same while the caller also sends.
MaxDuplexFrames == 2

\* The same on a stream that carries bad frames or fails.
MaxFaultFrames == 2

(* Program constants *)

\* Length of mysqlx message header.
header_length == 5

\* Severity passed to Error_processor::error(): "2 = ERROR".
SeverityError == 2

\* Maximum size of internal buffer used to receive messages: max_wr_size,
\* which is 1024*1024*1024 (1GB).
max_rd_size == 1073741824

-----------------------------------------------------------------------------
(* Messages *)

\* msg_type tags that occur on the stream.  "Unk" is a tag for which the
\* receiving side has no message type.
MsgTypes == {"Error", "Notice", "Ok", "Row", "Unk"}

\* The types other than Error and Notice.
ForegroundTypes == MsgTypes \ {"Error", "Notice"}

\* Frames as they travel: type tag, payload size (header size field minus 1)
\* and the decoded contents.
ErrorFrames ==
  { [type |-> "Error", psize |-> 1,
     body |-> [code |-> 1045, severity |-> s, sql_state |-> "28000", msg |-> "denied"]]
    : s \in {0, 1} }

NoticeFrames ==
  { [type |-> "Notice", psize |-> 1,
     body |-> [type |-> 1, scope |-> 1, payload |-> "deprecated"]] }

OtherFrames ==
  { [type |-> "Ok",  psize |-> 0, body |-> [data |-> "ok"]],
    [type |-> "Row", psize |-> 2, body |-> [data |-> "ab"]],
    [type |-> "Unk", psize |-> 1, body |-> [data |-> "??"]] }

Frames == ErrorFrames \cup NoticeFrames \cup OtherFrames

\* A payload that is not a serialized message of its type.
Garbage == [data |-> "garbage"]

\* Frames of a peer that does not keep to the protocol: an Ok whose payload
\* does not parse, a header whose size field is 0 (payload size -1) and one
\* whose size field is max_rd_size + 1.
BadFrames ==
  { [type |-> "Ok", psize |-> 1, body |-> Garbage],
    [type |-> "Ok", psize |-> 0 - 1, body |-> Garbage],
    [type |-> "Row", psize |-> max_rd_size, body |-> Garbage] }

\* Number of bytes frame f takes on the stream; the peer sends no payload
\* after a header whose size field is 0 or above max_rd_size.
FrameBytes(f) ==
  header_length + (IF f.psize >= 0 /\ f.psize < max_rd_size THEN f.psize ELSE 0)

RECURSIVE TotalBytes(_)
TotalBytes(w) == IF w = <<>> THEN 0 ELSE FrameBytes(Head(w)) + TotalBytes(Tail(w))

Min(a, b) == IF a < b THEN a ELSE b

\* No cdk Error.
NoError == [kind |-> "none", type |-> "none"]

\* The cdk Error of the given kind about message type t.
Err(kind, t) == [kind |-> kind, type |-> t]

-----------------------------------------------------------------------------
(* Protocol_impl: reading raw message frames *)

\* No Protocol::Stream::Op in m_rd_op.
NoRd == [pending |-> FALSE, left |-> 0]

\* Protocol_impl::read_header(): starts reading a frame header; does nothing
\* if the header was already read or a read is still going on.
read_header(p) ==
  IF p.m_msg_state = "PAYLOAD" \/ p.m_rd_op.pending
    THEN p
    ELSE [p EXCEPT !.m_rd_op = [pending |-> TRUE, left |-> header_length]]

\* Protocol_impl::read_payload(): starts reading the payload of the frame
\* whose header was read; does nothing if the payload was already read.
read_payload(p) ==
  IF p.m_msg_state = "HEADER" \/ p.m_rd_op.pending
    THEN p
    ELSE [p EXCEPT !.m_rd_op = [pending |-> TRUE, left |-> p.m_msg_size]]

\* Protocol_impl::rd_process(): a completed header read yields the type and
\* the payload size of the next frame of the stream w; a completed payload
\* read leaves the engine ready for the next header.
rd_process(p, w) ==
  IF p.m_msg_state = "HEADER"
    THEN [p EXCEPT !.m_rd_op = NoRd,
                   !.m_msg_state = "PAYLOAD",
                   !.m_msg_type = w[p.hdrs + 1].type,
                   !.m_msg_size = w[p.hdrs + 1].psize,
                   !.hdrs = @ + 1]
    ELSE [p EXCEPT !.m_rd_op = NoRd, !.m_msg_state = "HEADER"]

\* A size check with no lower limit.
size_ok_zero_allowed(size) == size <= max_rd_size

\* The size field of a frame header is acceptable: it counts the type byte
\* and the frame fits the read buffer.
size_ok(size) == size > 0 /\ size <= max_rd_size

\* rd_cont() that keeps nothing of a short read: the bytes it took from the
\* stream are not counted towards the header or payload it is reading.
rd_cont_forgets_chunk(R) ==
  IF ~R.proto.m_rd_op.pending
    THEN [R EXCEPT !.done = TRUE]
    ELSE LET take == Min(R.proto.m_rd_op.left, R.budget)
             R1 == [R EXCEPT !.budget = @ - take, !.consumed = @ + take]
         IN IF take < R.proto.m_rd_op.left
              THEN [R1 EXCEPT !.done = FALSE]
              ELSE [R1 EXCEPT !.proto = rd_process(R.proto, wire), !.done = TRUE]

\* Protocol_impl::rd_cont(): advances the read in m_rd_op by the bytes the
\* stream has available (R.budget); done when the read has all its bytes.
\* A read that is short of bytes throws R.fault if the stream has failed
\* (Eos, Io); a header read that completes throws Oversize if its size field
\* is not acceptable.
rd_cont(R) ==
  IF ~R.proto.m_rd_op.pending
    THEN [R EXCEPT !.done = TRUE]
    ELSE LET take == Min(R.proto.m_rd_op.left, R.budget)
             R1 == [R EXCEPT !.budget = @ - take, !.consumed = @ + take]
         IN IF take < R.proto.m_rd_op.left
              THEN [R1 EXCEPT !.proto.m_rd_op.left = @ - take, !.done = FALSE,
                              !.thrown = IF R.fault = "none" THEN NoError
                                         ELSE Err(R.fault, "none")]
              ELSE LET p1 == rd_process(R.proto, wire)
                       bad == R.proto.m_msg_state = "HEADER" /\ ~size_ok(p1.m_msg_size + 1)
                   IN [R1 EXCEPT !.proto = p1, !.done = TRUE,
                                 !.thrown = IF bad THEN Err("Oversize", p1.m_msg_type)
                                            ELSE NoError]

-----------------------------------------------------------------------------
(* Op_base *)

NoOp == [null |-> TRUE]

\* Op_base::is_completed()
is_completed(op) == op.m_completed

\* is_done() of an operation that never reports the whole operation done.
is_done_never(op) == FALSE

\* is_done() of an operation with a single stage: done from the start.
is_done_always(op) == TRUE

\* Op_base::is_done()
is_done(op) == is_completed(op)

\* Op_base::save_error(): the exception caught (R.thrown) becomes m_error.
save_error(R) == [R EXCEPT !.op.m_error = R.thrown, !.thrown = NoError]

\* throw_saved_error() that throws nothing.
throw_saved_error_nothing(R) == R

\* throw_saved_error() that forgets the error it throws.
throw_saved_error_clears(R) ==
  [R EXCEPT !.raised = R.op.m_error, !.op.m_error = NoError]

\* Op_base::throw_saved_error(): throws the error saved in m_error, which
\* stays saved; does nothing if no error was saved.
throw_saved_error(R) == [R EXCEPT !.raised = R.op.m_error]

\* do_cancel() that gives the operation up: marks it completed, drops the
\* pending stream operations and throws nothing.
do_cancel_gives_up(C) ==
  [C EXCEPT !.op.m_completed = TRUE, !.proto.m_rd_op = NoRd, !.wr.m_wr_op = FALSE]

\* Op_base::do_cancel() on C = [op, proto, wr, err]: throws "not
\* implemented" and touches neither the operation nor the engine.
do_cancel(C) == [C EXCEPT !.err = Err("NotImplemented", "none")]

-----------------------------------------------------------------------------
(* Op_rcv and its variants *)

\* The receive operations rcv_start<RCV> is used with.  Rcv_reply reads one
\* Ok reply and stops at a Row header, leaving it to the next operation;
\* Rcv_rows reads Rows until an Ok.  What they do not override is Op_rcv's.
RcvVariants == {"Rcv_reply", "Rcv_rows"}

\* Op_rcv itself, which overrides nothing, and an operation that expects
\* a message of any type.
PlainVariants == {"Op_rcv", "Rcv_any"}

\* Processors the caller passes to rcv_start; message_end() of "prc_stop"
\* requests to stop processing further messages.
Processors == {"prc_cont", "prc_stop"}

message_end_stops(prc) == prc = "prc_stop"

\* Op_rcv::do_next_msg(): UNEXPECTED unless the variant overrides it.
do_next_msg(variant, type) ==
  CASE variant = "Rcv_any" -> "EXPECTED"
    [] variant = "Rcv_reply" /\ type = "Ok"  -> "EXPECTED"
    [] variant = "Rcv_reply" /\ type = "Row" -> "STOP"
    [] variant = "Rcv_rows" /\ type \in {"Row", "Ok"} -> "EXPECTED"
    [] OTHER -> "UNEXPECTED"

\* next_msg() that leaves notices to do_next_msg().
next_msg_notice_to_variant(variant, type) ==
  CASE type = "Error"  -> "EXPECTED"
    [] OTHER -> do_next_msg(variant, type)

\* next_msg() that leaves errors to do_next_msg().
next_msg_error_to_variant(variant, type) ==
  CASE type = "Notice" -> "EXPECTED"
    [] OTHER -> do_next_msg(variant, type)

\* Op_rcv::next_msg()
next_msg(variant, type) ==
  CASE type = "Error"  -> "EXPECTED"
    [] type = "Notice" -> "EXPECTED"
    [] OTHER -> do_next_msg(variant, type)

\* Op_rcv::do_process_next(): false unless the variant overrides it.
do_process_next(variant, type) ==
  variant = "Rcv_rows" /\ type = "Row"

\* process_next() without its case for notices.
process_next_notice_as_other(op) ==
  IF op.m_msg_type = "Error" THEN FALSE
  ELSE do_process_next(op.variant, op.m_msg_type)

\* process_next() that asks for another message after an error.
process_next_error_continues(op) ==
  IF op.m_msg_type = "Notice" THEN TRUE
  ELSE IF op.m_msg_type = "Error" THEN TRUE
  ELSE do_process_next(op.variant, op.m_msg_type)

\* process_next() with the answers for notices and errors swapped.
process_next_swapped(op) ==
  IF op.m_msg_type = "Notice" THEN FALSE
  ELSE IF op.m_msg_type = "Error" THEN TRUE
  ELSE do_process_next(op.variant, op.m_msg_type)

\* process_next() that asks for another message after every message but an
\* error.
process_next_until_error(op) ==
  IF op.m_msg_type = "Notice" THEN TRUE
  ELSE IF op.m_msg_type = "Error" THEN FALSE
  ELSE TRUE

\* Op_rcv::process_next()
process_next(op) ==
  IF op.m_msg_type = "Notice" THEN TRUE
  ELSE IF op.m_msg_type = "Error" THEN FALSE
  ELSE do_process_next(op.variant, op.m_msg_type)

\* A callback made on the processor for frame number fr of the stream.
Call(cb, fr, args) == [cb |-> cb, fr |-> fr, args |-> args]

\* Op_rcv::do_process_msg() of the variants: the typed callback of the message.
do_process_msg(type, msg, fr) ==
  <<Call("msg", fr, <<type, msg>>)>>

\* process_msg() that after notice() goes on to do_process_msg().
process_msg_notice_falls_through(op_type, type, msg, fr) ==
  IF op_type = "Notice"
    THEN <<Call("notice", fr, <<msg.type, msg.scope, msg.payload>>)>>
           \o do_process_msg(type, msg, fr)
  ELSE IF op_type = "Error"
    THEN <<Call("error", fr, <<msg.code, SeverityError, msg.sql_state, msg.msg>>)>>
  ELSE do_process_msg(type, msg, fr)

\* process_msg() that passes on the severity the Error message carries.
process_msg_frame_severity(op_type, type, msg, fr) ==
  IF op_type = "Notice"
    THEN <<Call("notice", fr, <<msg.type, msg.scope, msg.payload>>)>>
  ELSE IF op_type = "Error"
    THEN <<Call("error", fr, <<msg.code, msg.severity, msg.sql_state, msg.msg>>)>>
  ELSE do_process_msg(type, msg, fr)

\* process_msg() that does not pass notices on.
process_msg_drops_notice(op_type, type, msg, fr) ==
  IF op_type = "Notice"
    THEN <<>>
  ELSE IF op_type = "Error"
    THEN <<Call("error", fr, <<msg.code, SeverityError, msg.sql_state, msg.msg>>)>>
  ELSE do_process_msg(type, msg, fr)

\* Op_rcv::process_msg(): the callbacks made for a decoded message; op_type
\* is the operation's m_msg_type.
process_msg(op_type, type, msg, fr) ==
  IF op_type = "Notice"
    THEN <<Call("notice", fr, <<msg.type, msg.scope, msg.payload>>)>>
  ELSE IF op_type = "Error"
    THEN <<Call("error", fr, <<msg.code, SeverityError, msg.sql_state, msg.msg>>)>>
  ELSE do_process_msg(type, msg, fr)

\* Op_rcv::Op_rcv()
NewOpRcv(variant) ==
  [variant |-> variant,
   m_completed |-> FALSE, m_error |-> NoError,
   m_stage |-> "HEADER", m_prc |-> "NULL",
   m_msg_type |-> "none", m_skip |-> FALSE, m_call_message_end |-> FALSE]

\* read_msg() that starts a header read whatever the read state is.
read_msg_restart(R, prc) ==
  [R EXCEPT !.op.m_prc = prc,
            !.proto.m_msg_state = "HEADER",
            !.proto.m_rd_op = [pending |-> TRUE, left |-> header_length],
            !.op.m_stage = "HEADER"]

\* read_msg() that leaves m_stage as it is.
read_msg_keeps_stage(R, prc) ==
  [R EXCEPT !.op.m_prc = prc,
            !.proto = read_header(@)]

\* Op_rcv::read_msg(prc) on the running state R
read_msg(R, prc) ==
  [R EXCEPT !.op.m_prc = prc,
            !.proto = read_header(@),
            !.op.m_stage = "HEADER"]

\* A dispatcher with a case for every message type.
HasDecoder_any(type) == TRUE

\* The message types the receiving side has a message class for
\* (Message_dispatcher::process_msg_with throws for the others).
HasDecoder(type) == type \in {"Error", "Notice", "Ok", "Row"}

\* process_payload() that does not look at m_skip.
process_payload_ignores_skip(R) ==
  LET fr == R.proto.hdrs
      f == wire[fr]
  IN IF ~HasDecoder(f.type)
       THEN [save_error([R EXCEPT !.thrown = Err("UnknownMessage", f.type)])
               EXCEPT !.op.m_skip = TRUE]
     ELSE IF f.body = Garbage
       THEN [save_error([R EXCEPT !.thrown = Err("Decode", f.type)])
               EXCEPT !.op.m_skip = TRUE]
     ELSE [R EXCEPT
             !.calls = @ \o <<Call("message_begin", fr, <<f.type, f.psize>>)>>
                         \o process_msg(R.op.m_msg_type, f.type, f.body, fr),
             !.op.m_call_message_end = TRUE]

\* Op_rcv::process_payload(): the payload of frame proto.hdrs has been read.
process_payload(R) ==
  LET fr == R.proto.hdrs
      f == wire[fr]
  IN IF R.op.m_skip THEN R
     ELSE IF ~HasDecoder(f.type)
       THEN [save_error([R EXCEPT !.thrown = Err("UnknownMessage", f.type)])
               EXCEPT !.op.m_skip = TRUE]
     ELSE IF f.body = Garbage
       THEN [save_error([R EXCEPT !.thrown = Err("Decode", f.type)])
               EXCEPT !.op.m_skip = TRUE]
     ELSE [R EXCEPT
             !.calls = @ \o <<Call("message_begin", fr, <<f.type, f.psize>>)>>
                         \o process_msg(R.op.m_msg_type, f.type, f.body, fr),
             !.op.m_call_message_end = TRUE]

RECURSIVE do_read_msg(_)
RECURSIVE finish(_, _)

\* Op_rcv::finish(): ends the processing of one message: message_end(), then
\* either the next message of the stage or the end of the stage, where a
\* saved error is thrown.
finish(R, stop) ==
  LET ends == R.op.m_call_message_end
      R1 == IF ends
              THEN [R EXCEPT !.calls = Append(@, Call("message_end", R.proto.hdrs, <<>>)),
                             !.op.m_call_message_end = FALSE]
              ELSE R
      stop1 == stop \/ (ends /\ message_end_stops(R.op.m_prc))
  IN IF ~stop1 /\ process_next(R1.op)
       THEN do_read_msg(read_msg(R1, R1.op.m_prc))
       ELSE throw_saved_error([R1 EXCEPT !.op.m_completed = TRUE,
                                         !.op.m_stage = "DONE",
                                         !.done = TRUE])

\* Op_rcv::do_read_msg(): the main message reading logic; it goes on until a
\* read has to wait for bytes (not done) or the stage ends (done).  An error
\* thrown by a read is saved and ends the stage.
do_read_msg(R) ==
  IF is_completed(R.op) THEN [R EXCEPT !.done = TRUE]
  ELSE IF R.op.m_stage = "HEADER" THEN
    LET R1 == rd_cont(R) IN
    IF R1.thrown # NoError THEN finish(save_error(R1), TRUE)
    ELSE IF ~R1.done THEN R1
    ELSE LET type == R1.proto.m_msg_type
             next == next_msg(R1.op.variant, type)
             R2 == [R1 EXCEPT !.op.m_msg_type = type, !.op.m_skip = FALSE]
         IN IF next = "STOP" THEN finish(R2, TRUE)
            ELSE LET R3 == IF next = "UNEXPECTED"
                             THEN [R2 EXCEPT !.op.m_error = Err("UnexpectedMessage", type),
                                             !.op.m_skip = TRUE]
                             ELSE R2
                 IN do_read_msg([R3 EXCEPT !.op.m_stage = "PAYLOAD",
                                           !.proto = read_payload(@)])
  ELSE IF R.op.m_stage = "PAYLOAD" THEN
    LET R1 == rd_cont(R) IN
    IF R1.thrown # NoError THEN finish(save_error(R1), TRUE)
    ELSE IF ~R1.done THEN R1 ELSE finish(process_payload(R1), FALSE)
  ELSE [R EXCEPT !.done = TRUE]

-----------------------------------------------------------------------------
(* Protocol_impl::rcv_start *)

\* RCV::resume(prc): starts the next stage of the operation with processor prc.
resume(R, prc) == read_msg(R, prc)

\* rcv_start() that drops a done operation without destroying it.
rcv_start_leak(E, Rcv, prc) ==
  LET remove == E.rcv # NoOp /\ is_done(E.rcv)
      E1 == IF remove THEN [E EXCEPT !.rcv = NoOp] ELSE E
      create == E1.rcv = NoOp
      E2 == IF create THEN [E1 EXCEPT !.rcv = NewOpRcv(Rcv), !.n_rcv = @ + 1] ELSE E1
      R == resume([proto |-> E2.proto, op |-> E2.rcv], prc)
  IN [proto |-> R.proto, rcv |-> R.op, n_rcv |-> E2.n_rcv,
      ret |-> R.op, destroyed |-> FALSE, created |-> create]

\* rcv_start() that keeps a done operation and resumes it.
rcv_start_keep_done(E, Rcv, prc) ==
  LET create == E.rcv = NoOp
      E2 == IF create THEN [E EXCEPT !.rcv = NewOpRcv(Rcv), !.n_rcv = @ + 1] ELSE E
      R == resume([proto |-> E2.proto, op |-> E2.rcv], prc)
  IN [proto |-> R.proto, rcv |-> R.op, n_rcv |-> E2.n_rcv,
      ret |-> R.op, destroyed |-> FALSE, created |-> create]

\* rcv_start() that replaces the operation whether it is done or not.
rcv_start_always_new(E, Rcv, prc) ==
  LET remove == E.rcv # NoOp
      E1 == IF remove THEN [E EXCEPT !.rcv = NoOp, !.n_rcv = @ - 1] ELSE E
      E2 == [E1 EXCEPT !.rcv = NewOpRcv(Rcv), !.n_rcv = @ + 1]
      R == resume([proto |-> E2.proto, op |-> E2.rcv], prc)
  IN [proto |-> R.proto, rcv |-> R.op, n_rcv |-> E2.n_rcv,
      ret |-> R.op, destroyed |-> remove, created |-> TRUE]

\* Protocol_impl::rcv_start<Rcv,Prc>(prc) on E = [proto, rcv, n_rcv]: the
\* read side, the receive slot and the number of live receive operations.
\* The result also tells which operation is returned and whether an
\* operation was destroyed and one constructed.
rcv_start(E, Rcv, prc) ==
  LET \* If last receive operation is done, remove it first.
      remove == E.rcv # NoOp /\ is_done(E.rcv)
      E1 == IF remove THEN [E EXCEPT !.rcv = NoOp, !.n_rcv = @ - 1] ELSE E
      \* Create new receive operation if none is active at the moment.
      create == E1.rcv = NoOp
      E2 == IF create THEN [E1 EXCEPT !.rcv = NewOpRcv(Rcv), !.n_rcv = @ + 1] ELSE E1
      \* Resume the operation starting its new stage.
      R == resume([proto |-> E2.proto, op |-> E2.rcv], prc)
  IN [proto |-> R.proto, rcv |-> R.op, n_rcv |-> E2.n_rcv,
      ret |-> R.op, destroyed |-> remove, created |-> create]

-----------------------------------------------------------------------------
(* Op_snd and Protocol_impl::snd_start *)

\* Messages the caller sends.
SndMsgs == {"StmtExecute", "Close"}

\* Protocol_impl::write_msg(): serializes the message into m_wr_buf and
\* starts the stream write in m_wr_op.
write_msg(w, msg) == [m_wr_buf |-> msg, m_wr_op |-> TRUE]

\* Op_snd::Op_snd(): a new operation, its message handed to write_msg().
NewOpSnd == [m_completed |-> FALSE]

\* do_cont() that marks the operation completed whatever wr_cont() reports.
snd_do_cont_always_completes(S, wr_done) ==
  [S EXCEPT !.wr.m_wr_op = ~wr_done, !.snd.m_completed = TRUE, !.done = TRUE]

\* do_cont() that returns what wr_cont() reports and leaves m_completed as
\* it is.
snd_do_cont_forgets_completed(S, wr_done) ==
  IF ~wr_done
    THEN [S EXCEPT !.done = FALSE]
    ELSE [S EXCEPT !.wr.m_wr_op = FALSE, !.done = TRUE]

\* Op_snd::do_cont() on S = [snd, wr]; wr_done tells whether wr_cont()
\* reports the stream write done.
snd_do_cont(S, wr_done) ==
  IF ~wr_done
    THEN [S EXCEPT !.done = FALSE]
    ELSE [S EXCEPT !.wr.m_wr_op = FALSE, !.snd.m_completed = TRUE, !.done = TRUE]

\* Op_snd::do_wait(): wr_wait() runs the stream write to its end.
snd_do_wait(S) ==
  [S EXCEPT !.wr.m_wr_op = FALSE, !.snd.m_completed = TRUE, !.done = TRUE]

\* Protocol_impl::snd_start(msg, type) on S = [snd, wr, n_snd]: Busy while a
\* send operation is in flight, otherwise a new Op_snd replaces the old one.
snd_start(S, msg) ==
  IF S.snd # NoOp /\ ~is_completed(S.snd)
    THEN [S EXCEPT !.err = Err("Busy", "none")]
    ELSE [S EXCEPT !.snd = NewOpSnd,
                   !.wr = write_msg(@, msg),
                   !.n_snd = IF S.snd = NoOp THEN @ + 1 ELSE @,
                   !.ret = NewOpSnd,
                   !.destroyed = S.snd # NoOp,
                   !.created = TRUE]

-----------------------------------------------------------------------------
(* The engine driven by its caller *)

\* The streams of at most n frames.
Wires(n) == UNION { [1..m -> Frames] : m \in 0..n }

\* No Safe_prc wrapper.
NoSafe == [null |-> TRUE]

\* What the caller's last call did: its name and arguments, the operation it
\* returned (or NoOp), whether cont() or wait() left the operation completed,
\* the error thrown (or NoError), and whether an operation object was
\* destroyed or constructed.
Outcome(call, arg, ret, done, err, destroyed, created) ==
  [call |-> call, arg |-> arg, ret |-> ret, done |-> done, err |-> err,
   destroyed |-> destroyed, created |-> created]

EngineIdle ==
  /\ consumed = 0
  /\ proto = [m_msg_state |-> "HEADER", m_rd_op |-> NoRd,
              m_msg_type |-> "none", m_msg_size |-> 0, hdrs |-> 0]
  /\ m_rcv_op = NoOp
  /\ m_snd_op = NoOp
  /\ wr = [m_wr_buf |-> "empty", m_wr_op |-> FALSE]
  /\ n_live = [rcv |-> 0, snd |-> 0]
  /\ calls = <<>>
  /\ last = Outcome("none", <<>>, NoOp, FALSE, NoError, FALSE, FALSE)

\* The engine after construction, with no result object and no wrapper.
InitEngine == EngineIdle /\ results = <<>> /\ safe = NoSafe

\* The caller starts (the next stage of) a receive operation.  A live
\* operation is assumed to be of type Rcv.
RcvStart(Rcv, prc) ==
  /\ (m_rcv_op # NoOp /\ ~is_done(m_rcv_op)) => m_rcv_op.variant = Rcv
  /\ LET E == rcv_start([proto |-> proto, rcv |-> m_rcv_op, n_rcv |-> n_live.rcv], Rcv, prc)
     IN /\ proto' = E.proto
        /\ m_rcv_op' = E.rcv
        /\ n_live' = [n_live EXCEPT !.rcv = E.n_rcv]
        /\ last' = Outcome("rcv_start", <<Rcv, prc>>, E.ret, FALSE, NoError, E.destroyed, E.created)
  /\ UNCHANGED <<wire, consumed, m_snd_op, wr, calls, results, safe>>

\* The running state of the receive operation with k bytes on the stream.
Running(k) ==
  [proto |-> proto, op |-> m_rcv_op, consumed |-> consumed, calls |-> calls,
   budget |-> k, fault |-> "none", thrown |-> NoError, raised |-> NoError,
   done |-> FALSE]

RcvPumped(call, R) ==
  /\ proto' = R.proto
  /\ m_rcv_op' = R.op
  /\ consumed' = R.consumed
  /\ calls' = R.calls
  /\ last' = Outcome(call, IF R.fault = "none" THEN <<>> ELSE <<R.fault>>,
                      NoOp, R.done, R.raised, FALSE, FALSE)
  /\ UNCHANGED <<wire, m_snd_op, wr, n_live, results, safe>>

\* cont() on the receive operation while the stream has k bytes to give.
RcvCont(k) ==
  /\ m_rcv_op # NoOp
  /\ RcvPumped("rcv_cont", do_read_msg(Running(k)))

\* wait() on the receive operation: returns once the stage has ended, which
\* takes the stream to carry the bytes for it.
RcvWait ==
  /\ m_rcv_op # NoOp
  /\ LET R == do_read_msg(Running(TotalBytes(wire) - consumed))
     IN R.done /\ RcvPumped("rcv_wait", R)

SndState ==
  [snd |-> m_snd_op, wr |-> wr, n_snd |-> n_live.snd,
   ret |-> NoOp, done |-> FALSE, err |-> NoError, destroyed |-> FALSE, created |-> FALSE]

SndDone(call, arg, S) ==
  /\ m_snd_op' = S.snd
  /\ wr' = S.wr
  /\ n_live' = [n_live EXCEPT !.snd = S.n_snd]
  /\ last' = Outcome(call, arg, S.ret, S.done, S.err, S.destroyed, S.created)
  /\ UNCHANGED <<wire, consumed, proto, m_rcv_op, calls, results, safe>>

\* The caller starts sending a message.
SndStart(msg) == SndDone("snd_start", <<msg>>, snd_start(SndState, msg))

\* cont() on the send operation; a completed operation stays as it is.
SndCont(wr_done) ==
  /\ m_snd_op # NoOp
  /\ SndDone("snd_cont", <<>>, IF is_completed(m_snd_op)
                           THEN [SndState EXCEPT !.done = TRUE]
                           ELSE snd_do_cont(SndState, wr_done))

\* wait() on the send operation.
SndWait ==
  /\ m_snd_op # NoOp
  /\ SndDone("snd_wait", <<>>, IF is_completed(m_snd_op)
                           THEN [SndState EXCEPT !.done = TRUE]
                           ELSE snd_do_wait(SndState))

\* The calls on the receiving side.
NextRcv ==
  \/ \E Rcv \in RcvVariants, prc \in Processors : RcvStart(Rcv, prc)
  \/ \E k \in 0..(TotalBytes(wire) - consumed) : RcvCont(k)
  \/ RcvWait

\* The calls on the sending side.
NextSnd ==
  \/ \E msg \in SndMsgs : SndStart(msg)
  \/ \E wr_done \in BOOLEAN : SndCont(wr_done)
  \/ SndWait

Next == NextRcv \/ NextSnd

\* The engine with both directions in use.
Init == wire \in Wires(MaxDuplexFrames) /\ InitEngine

Spec == Init /\ [][Next]_vars

\* The receiving side alone, over longer streams.
InitRcv == wire \in Wires(MaxFrames) /\ InitEngine

SpecRcv == InitRcv /\ [][NextRcv]_vars

\* Frames on a stream whose peer may not keep to the protocol.
FaultFrames ==
  BadFrames \cup NoticeFrames \cup OtherFrames
    \cup {f \in ErrorFrames : f.body.severity = 0}

FaultWires(n) == UNION { [1..m -> FaultFrames] : m \in 0..n }

\* The errors a failed stream read reports.
StreamFaults == {"Eos", "Io"}

\* The errors after which the stream is of no use to the engine.
TearDownKinds == StreamFaults \cup {"Oversize"}

PumpCalls == {"rcv_cont", "rcv_wait"}

\* cont() or wait() on the receive operation while the stream gives k more
\* bytes and then fails: it is closed (Eos) or reports an I/O error (Io).
RcvFault(call, k, kind) ==
  /\ m_rcv_op # NoOp
  /\ ~is_completed(m_rcv_op)
  /\ RcvPumped(call, do_read_msg([Running(k) EXCEPT !.fault = kind]))

\* The calls on the receiving side of an engine whose stream may fail; after
\* an error that leaves the stream of no use the engine is only torn down.
NextFault ==
  /\ last.err.kind \notin TearDownKinds
  /\ \/ \E Rcv \in PlainVariants : RcvStart(Rcv, "prc_cont")
     \/ \E k \in 0..(TotalBytes(wire) - consumed) : RcvCont(k)
     \/ RcvWait
     \/ \E call \in PumpCalls, k \in 0..(TotalBytes(wire) - consumed),
           kind \in StreamFaults : RcvFault(call, k, kind)

InitFault == wire \in FaultWires(MaxFaultFrames) /\ InitEngine

\* The receiving side over streams with bad frames and failures.
SpecFault == InitFault /\ [][NextFault]_vars

\* Longest stream of the engine whose operations get cancelled.
MaxCancelFrames == 1

\* The state do_cancel() of operation op works on.
Cancelling(op) == [op |-> op, proto |-> proto, wr |-> wr, err |-> NoError]

\* The caller cancels the receive operation.
RcvCancel ==
  /\ m_rcv_op # NoOp
  /\ LET C == do_cancel(Cancelling(m_rcv_op))
     IN /\ m_rcv_op' = C.op
        /\ proto' = C.proto
        /\ wr' = C.wr
        /\ last' = Outcome("rcv_cancel", <<>>, NoOp, FALSE, C.err, FALSE, FALSE)
  /\ UNCHANGED <<wire, consumed, m_snd_op, n_live, calls, results, safe>>

\* The caller cancels the send operation.
SndCancel ==
  /\ m_snd_op # NoOp
  /\ LET C == do_cancel(Cancelling(m_snd_op))
     IN /\ m_snd_op' = C.op
        /\ proto' = C.proto
        /\ wr' = C.wr
        /\ last' = Outcome("snd_cancel", <<>>, NoOp, FALSE, C.err, FALSE, FALSE)
  /\ UNCHANGED <<wire, consumed, m_rcv_op, n_live, calls, results, safe>>

CancelCalls == {"rcv_cancel", "snd_cancel"}

NextCancel == Next \/ RcvCancel \/ SndCancel

InitCancel == wire \in Wires(MaxCancelFrames) /\ InitEngine

\* The engine with both directions in use and a caller that cancels.
SpecCancel == InitCancel /\ [][NextCancel]_vars

\* Longest stream of the engine whose stream delivers frames in chunks.
MaxFragFrames == 2

\* The steps in which the stream has delivered bytes and cont() of the running
\* operation has taken them.
FragDeliver ==
  /\ m_rcv_op # NoOp /\ ~is_completed(m_rcv_op)
  /\ consumed' \in (consumed + 1)..TotalBytes(wire)

\* The calls on the receiving side of a caller that polls with cont().
NextFrag ==
  \/ \E Rcv \in RcvVariants, prc \in Processors : RcvStart(Rcv, prc)
  \/ \E k \in 0..(TotalBytes(wire) - consumed) : RcvCont(k)

InitFrag == wire \in Wires(MaxFragFrames) /\ InitEngine

\* The receiving side polled with cont() over a stream that delivers its
\* frames in chunks of any size and, in the end, all of its bytes.
SpecFrag == InitFrag /\ [][NextFrag]_vars /\ WF_consumed(FragDeliver)

-----------------------------------------------------------------------------
(* BaseResult: result objects and the implementation they refer to *)

\* Number of BaseResult objects.
MaxResults == 3

\* Largest position (m_pos) of a result in use.
MaxPos == 1

\* The BaseResult objects, and the implementation objects: implementation i
\* is the one made for the reply that object i was constructed from.
Objs == 1..MaxResults

\* The NULL pointer to an implementation.
NullImpl == 0

\* Storage in which no BaseResult has been constructed.
NoResult ==
  [live |-> FALSE, m_impl |-> NullImpl, m_owns_impl |-> FALSE, m_pos |-> 0]

\* BaseResult::BaseResult(): no implementation.
DefaultResult ==
  [live |-> TRUE, m_impl |-> NullImpl, m_owns_impl |-> TRUE, m_pos |-> 0]

\* BaseResult::BaseResult(cdk::Reply*) of object i, and rows read since: the
\* object owns the implementation made for its reply.
ReplyResult(i, pos) ==
  [live |-> TRUE, m_impl |-> i, m_owns_impl |-> TRUE, m_pos |-> pos]

\* init() that leaves the position as it is.
init_keeps_pos(rs, d, s) ==
  LET r1 == [rs EXCEPT ![d].live = TRUE, ![d].m_impl = rs[s].m_impl]
  IN IF ~r1[s].m_owns_impl
       THEN [r1 EXCEPT ![d].m_owns_impl = FALSE]
       ELSE LET r2 == [r1 EXCEPT ![d].m_owns_impl = TRUE]
            IN [r2 EXCEPT ![s].m_owns_impl = FALSE]

\* BaseResult::init(BaseResult &&init) on object d with object s as init,
\* on the objects rs; the assignments are made in the order of the code, d
\* and s may be the same object.
init(rs, d, s) ==
  LET r0 == [rs EXCEPT ![d].live = TRUE, ![d].m_pos = 0]
      r1 == [r0 EXCEPT ![d].m_impl = r0[s].m_impl]
  IN IF ~r1[s].m_owns_impl
       THEN [r1 EXCEPT ![d].m_owns_impl = FALSE]
       ELSE LET r2 == [r1 EXCEPT ![d].m_owns_impl = TRUE]
            IN [r2 EXCEPT ![s].m_owns_impl = FALSE]

\* A call on the result objects with destination d and source s.
ResultCall(call, d, s, rs) ==
  /\ results' = rs
  /\ last' = Outcome(call, <<d, s>>, NoOp, FALSE, NoError, FALSE, FALSE)
  /\ UNCHANGED <<wire, consumed, proto, m_rcv_op, m_snd_op, wr, n_live, calls, safe>>

\* BaseResult::BaseResult(BaseResult &&other): object d is constructed from s.
MoveConstruct(d, s) ==
  /\ ~results[d].live /\ results[s].live
  /\ ResultCall("move_construct", d, s, init(results, d, s))

\* BaseResult::operator=(BaseResult &&other)
MoveAssign(d, s) ==
  /\ results[d].live /\ results[s].live
  /\ ResultCall("move_assign", d, s, init(results, d, s))

\* Result::operator=(BaseResult &&other): the result s is stored in d.
Store(d, s) ==
  /\ results[d].live /\ results[s].live
  /\ ResultCall("store", d, s, init(results, d, s))

MoveCalls == {"move_construct", "move_assign", "store"}

NextResult ==
  \/ \E d, s \in Objs : MoveConstruct(d, s)
  \/ \E d, s \in Objs : MoveAssign(d, s)
  \/ \E d, s \in Objs : Store(d, s)

\* Each object is not constructed yet, default-constructed, or constructed
\* from a reply of its own and used since.
InitResult ==
  /\ wire = <<>> /\ EngineIdle /\ safe = NoSafe
  /\ results \in [Objs -> {NoResult, DefaultResult}
                            \cup {ReplyResult(i, pos) : i \in Objs, pos \in 0..MaxPos}]
  /\ \A i \in Objs : results[i].m_impl \in {NullImpl, i}

\* Result objects moved into one another.
SpecResult == InitResult /\ [][NextResult]_vars

-----------------------------------------------------------------------------
(* Safe_prc: processor wrappers that may wrap no processor *)

\* Largest number of callbacks a wrapped processor gets.
MaxSafeCalls == 2

\* The NULL processor pointer.
NullPrc == "NULL"

\* Argument values of the callbacks, each with its C++ type.
Arg(t, v) == [t |-> t, v |-> v]

BytesArgs == {Arg("bytes", "ab"), Arg("bytes", "")}
NameArgs == {Arg("string", "x")}
ObjArgs == {Arg("Db_obj", "fn")}
ObjPtrArgs == {Arg("Db_obj*", "tbl"), Arg("Db_obj*", NullPrc)}
PathArgs == {Arg("Doc_path", "$.a")}

\* The callbacks of Scalar_processor with their arguments.
ScalarCalls ==
  {[cb |-> "null", args |-> <<>>]}
    \cup {[cb |-> "str", args |-> <<b>>] : b \in BytesArgs}
    \cup {[cb |-> "str", args |-> <<Arg("charset_id_t", 33), b>>] : b \in BytesArgs}
    \cup {[cb |-> "num", args |-> <<Arg(t, 7)>>] : t \in {"int64_t", "uint64_t", "float", "double"}}
    \cup {[cb |-> "yesno", args |-> <<Arg("bool", v)>>] : v \in BOOLEAN}
    \cup {[cb |-> "octets", args |-> <<b>>] : b \in BytesArgs}

\* The callbacks of Expr_processor with their arguments.
ExprCalls ==
  {[cb |-> "val", args |-> <<>>]}
    \cup {[cb |-> "op", args |-> <<Arg("const char*", "+")>>]}
    \cup {[cb |-> "call", args |-> <<f>>] : f \in ObjArgs}
    \cup {[cb |-> "var", args |-> <<n>>] : n \in NameArgs}
    \cup {[cb |-> "id", args |-> <<n, o>>] : n \in NameArgs, o \in ObjPtrArgs}
    \cup {[cb |-> "id", args |-> <<n, o, p>>] : n \in NameArgs, o \in ObjPtrArgs, p \in PathArgs}
    \cup {[cb |-> "id", args |-> <<p>>] : p \in PathArgs}
    \cup {[cb |-> "placeholder", args |-> <<>>]}
    \cup {[cb |-> "placeholder", args |-> <<n>>] : n \in NameArgs}
    \cup {[cb |-> "placeholder", args |-> <<Arg("unsigned", 1)>>]}

\* Callback cb(args) as processor prc gets it, and what it returns.
Received(prc, cb, args, ret) == [prc |-> prc, cb |-> cb, args |-> args, ret |-> ret]

\* The processor to which a callback of an Expr_processor hands the values
\* or arguments that follow, if it does not return NULL.
SubPrc(cb) == IF cb = "val" THEN "value_prc" ELSE "args_prc"

\* The Safe_prc a call returns: a wrapper of the kind for the pointer ptr,
\* or nothing for a callback that returns void.
Safe_prc(kind, ptr) == [kind |-> kind, m_prc |-> ptr]

\* m_prc ? m_prc->cb(args) : (void)NULL, on W = [m_prc, log, ret].
forward(W, cb, args) ==
  IF W.m_prc # NullPrc
    THEN [W EXCEPT !.log = Append(@, Received(W.m_prc, cb, args, "void")),
                   !.ret = NoSafe]
    ELSE [W EXCEPT !.ret = NoSafe]

\* m_prc ? m_prc->cb(args) : NULL, converted to a Safe_prc of the given kind;
\* answer is the pointer the processor returns.
forward_ptr(W, cb, args, kind, answer) ==
  IF W.m_prc # NullPrc
    THEN [W EXCEPT !.log = Append(@, Received(W.m_prc, cb, args, answer)),
                   !.ret = Safe_prc(kind, answer)]
    ELSE [W EXCEPT !.ret = Safe_prc(kind, NullPrc)]

\* The argument types of a call.
Sig(c) == [k \in DOMAIN c.args |-> c.args[k].t]

\* Safe_prc<Scalar_processor>: the member function that the call c selects.
Safe_prc_Scalar(W, c) ==
  CASE c.cb = "null" -> forward(W, "null", <<>>)
    [] c.cb = "str" /\ Sig(c) = <<"bytes">> -> forward(W, "str", <<c.args[1]>>)
    [] c.cb = "str" /\ Sig(c) = <<"charset_id_t", "bytes">> ->
         forward(W, "str", <<c.args[1], c.args[2]>>)
    [] c.cb = "num" /\ Sig(c) = <<"int64_t">> -> forward(W, "num", <<c.args[1]>>)
    [] c.cb = "num" /\ Sig(c) = <<"uint64_t">> -> forward(W, "num", <<c.args[1]>>)
    [] c.cb = "num" /\ Sig(c) = <<"float">> -> forward(W, "num", <<c.args[1]>>)
    [] c.cb = "num" /\ Sig(c) = <<"double">> -> forward(W, "num", <<c.args[1]>>)
    [] c.cb = "yesno" -> forward(W, "yesno", <<c.args[1]>>)
    [] c.cb = "octets" -> forward(W, "octets", <<c.args[1]>>)

\* Safe_prc<Expr_processor> whose id(name, db_obj, path) calls the
\* processor's id(name, db_obj).
Safe_prc_Expr_drops_path(W, c, answer) ==
  CASE c.cb = "val" -> forward_ptr(W, "val", <<>>, "Scalar", answer)
    [] c.cb = "op" -> forward_ptr(W, "op", <<c.args[1]>>, "Args", answer)
    [] c.cb = "call" -> forward_ptr(W, "call", <<c.args[1]>>, "Args", answer)
    [] c.cb = "var" -> forward(W, "var", <<c.args[1]>>)
    [] c.cb = "id" /\ Len(c.args) > 1 -> forward(W, "id", <<c.args[1], c.args[2]>>)
    [] c.cb = "id" /\ Sig(c) = <<"Doc_path">> -> forward(W, "id", <<c.args[1]>>)
    [] c.cb = "placeholder" /\ Sig(c) = <<>> -> forward(W, "placeholder", <<>>)
    [] c.cb = "placeholder" -> forward(W, "placeholder", <<c.args[1]>>)

\* Safe_prc<Expr_processor>: the member function that the call c selects;
\* answer is what the processor's val(), op() or call() returns.
Safe_prc_Expr(W, c, answer) ==
  CASE c.cb = "val" -> forward_ptr(W, "val", <<>>, "Scalar", answer)
    [] c.cb = "op" -> forward_ptr(W, "op", <<c.args[1]>>, "Args", answer)
    [] c.cb = "call" -> forward_ptr(W, "call", <<c.args[1]>>, "Args", answer)
    [] c.cb = "var" -> forward(W, "var", <<c.args[1]>>)
    [] c.cb = "id" /\ Sig(c) = <<"string", "Db_obj*">> ->
         forward(W, "id", <<c.args[1], c.args[2]>>)
    [] c.cb = "id" /\ Sig(c) = <<"string", "Db_obj*", "Doc_path">> ->
         forward(W, "id", <<c.args[1], c.args[2], c.args[3]>>)
    [] c.cb = "id" /\ Sig(c) = <<"Doc_path">> -> forward(W, "id", <<c.args[1]>>)
    [] c.cb = "placeholder" /\ Sig(c) = <<>> -> forward(W, "placeholder", <<>>)
    [] c.cb = "placeholder" /\ Sig(c) = <<"string">> ->
         forward(W, "placeholder", <<c.args[1]>>)
    [] c.cb = "placeholder" /\ Sig(c) = <<"unsigned">> ->
         forward(W, "placeholder", <<c.args[1]>>)

\* The wrapper at hand with the callbacks the processors have got so far.
Wrapped == [m_prc |-> safe.m_prc, log |-> calls, ret |-> NoSafe]

\* The outcome of a call c on the wrapper.
SafeCalled(c, W) ==
  /\ calls' = W.log
  /\ last' = Outcome(c.cb, c.args, W.ret, FALSE, NoError, FALSE, FALSE)
  /\ UNCHANGED <<wire, consumed, proto, m_rcv_op, m_snd_op, wr, n_live, results, safe>>

\* A call on a Safe_prc<Scalar_processor>.
SafeScalarCall(c) ==
  /\ safe # NoSafe /\ safe.kind = "Scalar"
  /\ Len(calls) < MaxSafeCalls
  /\ SafeCalled(c, Safe_prc_Scalar(Wrapped, c))

\* A call on a Safe_prc<Expr_processor>; the processor, if there is one,
\* answers val(), op() and call() with a processor or with NULL.
SafeExprCall(c, answer) ==
  /\ safe # NoSafe /\ safe.kind = "Expr"
  /\ Len(calls) < MaxSafeCalls
  /\ SafeCalled(c, Safe_prc_Expr(Wrapped, c, answer))

\* The caller goes on with the Safe_prc<Value_prc> that val() has returned.
SafeDescend ==
  /\ last.call = "val" /\ last.ret # NoSafe /\ safe.kind = "Expr"
  /\ safe' = last.ret
  /\ last' = Outcome("descend", <<>>, NoSafe, FALSE, NoError, FALSE, FALSE)
  /\ UNCHANGED <<wire, consumed, proto, m_rcv_op, m_snd_op, wr, n_live, calls, results>>

NextSafe ==
  \/ \E c \in ScalarCalls : SafeScalarCall(c)
  \/ \E c \in ExprCalls : \E answer \in {NullPrc, SubPrc(c.cb)} :
       SafeExprCall(c, answer)
  \/ SafeDescend

\* A wrapper of a scalar or of an expression processor, or of none.
InitSafe ==
  /\ wire = <<>> /\ EngineIdle /\ results = <<>>
  /\ safe \in {Safe_prc("Scalar", p) : p \in {NullPrc, "scalar_prc"}}
               \cup {Safe_prc("Expr", p) : p \in {NullPrc, "expr_prc"}}

\* Calls made through Safe_prc wrappers.
SpecSafe == InitSafe /\ [][NextSafe]_vars

-----------------------------------------------------------------------------
(* Properties *)

\* C1: in every reachable state the engine holds at most one send operation
\* and at most one receive operation: every operation object that was
\* constructed and not destroyed is the one its slot points to.
C1_AtMostOneOpPerSlot ==
  /\ n_live.rcv = (IF m_rcv_op = NoOp THEN 0 ELSE 1)
  /\ n_live.snd = (IF m_snd_op = NoOp THEN 0 ELSE 1)

\* Both slots are taken and rcv_start has just replaced a done operation.
C1_Witness ==
  /\ last.call = "rcv_start" /\ last.destroyed /\ last.created
  /\ m_rcv_op # NoOp /\ m_snd_op # NoOp

\* C2: rcv_start discards a receive operation that is done, constructs one of
\* the requested variant if there is none then, and otherwise keeps the
\* existing one; in all cases the operation is resumed with the given
\* processor and the operation returned is the one in the receive slot.
C2_RcvStartCreateOrResume ==
  [][last'.call = "rcv_start" =>
       LET done == m_rcv_op # NoOp /\ m_rcv_op.m_completed
           none == m_rcv_op = NoOp \/ done
       IN /\ last'.destroyed = done
          /\ last'.created = none
          /\ none => /\ m_rcv_op'.variant = last'.arg[1]
                     /\ m_rcv_op'.m_error = NoError
                     /\ ~m_rcv_op'.m_completed
          /\ ~none => [m_rcv_op' EXCEPT !.m_prc = m_rcv_op.m_prc,
                                        !.m_stage = m_rcv_op.m_stage] = m_rcv_op
          /\ m_rcv_op'.m_prc = last'.arg[2]
          /\ m_rcv_op'.m_stage = "HEADER"
          /\ last'.ret = m_rcv_op'
          /\ n_live'.rcv = 1]_vars

\* rcv_start has resumed a running operation that holds a saved error, with
\* another processor than it had.
C2_Witness ==
  /\ last.call = "rcv_start" /\ ~last.created /\ ~last.destroyed
  /\ m_rcv_op.m_error # NoError
  /\ m_rcv_op.m_prc = "prc_stop"

\* The last callback made is message_end() of frame number proto.hdrs, the
\* last frame whose header was read.
LastDispatched ==
  /\ calls # <<>>
  /\ calls[Len(calls)].cb = "message_end"
  /\ calls[Len(calls)].fr = proto.hdrs

\* A stage of the receive operation has ended after a foreground message was
\* dispatched for which do_process_next() is false.
StageEndedOnForeground ==
  /\ m_rcv_op # NoOp
  /\ m_rcv_op.m_completed
  /\ m_rcv_op.m_msg_type \in ForegroundTypes
  /\ LastDispatched
  /\ ~do_process_next(m_rcv_op.variant, m_rcv_op.m_msg_type)

\* C3 as stated: after a stage that ended on a foreground message with
\* do_process_next() false, the operation is not done and the next rcv_start
\* resumes it: it neither destroys nor constructs an operation.
C3_Original ==
  [][StageEndedOnForeground =>
       /\ ~is_done(m_rcv_op)
       /\ last'.call = "rcv_start" => (~last'.destroyed /\ ~last'.created)]_vars

\* C3 amended: with Op_base::is_done(), which is is_completed(), a stage
\* that ended on a foreground message with do_process_next() false leaves the
\* operation completed and done, and the next rcv_start destroys it and
\* resumes a newly constructed one.
C3_Amended ==
  [][StageEndedOnForeground =>
       /\ is_completed(m_rcv_op) /\ is_done(m_rcv_op)
       /\ last'.call = "rcv_start" =>
            /\ last'.destroyed /\ last'.created
            /\ m_rcv_op' = [NewOpRcv(last'.arg[1]) EXCEPT !.m_prc = last'.arg[2]]]_vars

\* rcv_start has replaced an operation right after its stage ended on a
\* dispatched foreground message.
C3_Witness ==
  /\ last.call = "rcv_start" /\ last.destroyed /\ last.created
  /\ LastDispatched
  /\ wire[proto.hdrs].type \in ForegroundTypes

\* The bytes read from the stream are those of the frames read so far: the
\* frames before the current one, and the part of the current header or
\* payload that the read in m_rd_op has got.
FramingAligned ==
  LET h == proto.hdrs
      got(size) == IF proto.m_rd_op.pending THEN size - proto.m_rd_op.left ELSE 0
  IN IF proto.m_msg_state = "HEADER"
       THEN consumed = TotalBytes(SubSeq(wire, 1, h)) + got(header_length)
       ELSE consumed = TotalBytes(SubSeq(wire, 1, h - 1)) + header_length
                         + got(wire[h].psize)

\* Number of callbacks cb made for frame number i.
Count(cb, i) == Cardinality({k \in DOMAIN calls : calls[k].cb = cb /\ calls[k].fr = i})

\* The payload of frame number i has been read.
Passed(i) == i < proto.hdrs \/ (i = proto.hdrs /\ proto.m_msg_state = "HEADER")

\* Message types that no variant treats as unexpected or unknown.
Accepted(type) ==
  HasDecoder(type) /\ \A v \in RcvVariants : next_msg(v, type) # "UNEXPECTED"

\* Every frame is dispatched once when its payload has been read and it is
\* accepted, and not at all otherwise.
DispatchedOnce ==
  \A i \in DOMAIN wire :
    Count("message_begin", i) = (IF Passed(i) /\ Accepted(wire[i].type) THEN 1 ELSE 0)

\* rcv_start on E, and again on its result.
RcvStartTwice(E, Rcv, prc) ==
  LET E1 == rcv_start(E, Rcv, prc)
  IN rcv_start([proto |-> E1.proto, rcv |-> E1.rcv, n_rcv |-> E1.n_rcv], Rcv, prc)

\* C4: rcv_start called twice in a row on a running receive operation leaves
\* the engine as one call does, and returns the same operation without
\* destroying or constructing one; over all runs, with such calls in them,
\* no byte of the stream is read twice or left out, and every frame is
\* dispatched once.
C4_ResumptionIdempotent ==
  /\ (m_rcv_op # NoOp /\ ~m_rcv_op.m_completed) =>
       \A prc \in Processors :
         LET E == [proto |-> proto, rcv |-> m_rcv_op, n_rcv |-> n_live.rcv]
             once == rcv_start(E, m_rcv_op.variant, prc)
             twice == RcvStartTwice(E, m_rcv_op.variant, prc)
         IN /\ twice = once
            /\ ~once.created /\ ~once.destroyed
  /\ FramingAligned
  /\ DispatchedOnce

\* rcv_start was called on an operation that was in its payload stage with a
\* part of the payload read.
C4_Witness ==
  /\ last.call = "rcv_start" /\ ~last.created
  /\ m_rcv_op.m_stage = "HEADER"
  /\ proto.m_msg_state = "PAYLOAD"
  /\ proto.m_rd_op.pending /\ proto.m_rd_op.left < proto.m_msg_size

\* C5: snd_start while the previous send operation is not completed, or its
\* stream write still going on, throws Busy and leaves the write buffer,
\* the write and the send operation as they are.
C5_SendBusy ==
  [][(/\ last'.call = "snd_start"
      /\ m_snd_op # NoOp
      /\ (~m_snd_op.m_completed \/ wr.m_wr_op)) =>
       /\ last'.err.kind = "Busy"
       /\ wr' = wr
       /\ m_snd_op' = m_snd_op
       /\ ~last'.created /\ ~last'.destroyed
       /\ n_live' = n_live]_vars

\* snd_start of another message than the one in flight has thrown Busy.
C5_Witness ==
  /\ last.call = "snd_start" /\ last.err.kind = "Busy"
  /\ wr.m_wr_op
  /\ wr.m_wr_buf # last.arg[1]

\* C6: a pump call whose last dispatched frame is a Notice, with a processor
\* whose message_end() does not request to stop, has gone on to the next
\* frame: it has read the next header or left the operation not completed,
\* in its header stage, with the header read going on.  No Notice is handed
\* to do_process_msg(): its callbacks are message_begin, notice, message_end.
C6_NoticeNeverEndsStage ==
  [][LET n == Len(calls')
         fr == calls'[n].fr
     IN /\ (/\ last'.call \in PumpCalls
            /\ n > Len(calls)
            /\ wire[fr].type = "Notice"
            /\ ~message_end_stops(m_rcv_op.m_prc)) =>
              \/ proto'.hdrs > fr
              \/ /\ ~m_rcv_op'.m_completed
                 /\ ~last'.done
                 /\ m_rcv_op'.m_stage = "HEADER"
                 /\ proto'.m_msg_state = "HEADER"
                 /\ proto'.m_rd_op.pending
        /\ \A k \in 1..n :
             wire[calls'[k].fr].type = "Notice" =>
               calls'[k].cb \in {"message_begin", "notice", "message_end"}]_vars

\* A Notice was the last frame dispatched and the operation waits for the
\* bytes of the next header.
C6_Witness ==
  /\ LastDispatched
  /\ wire[proto.hdrs].type = "Notice"
  /\ last.call \in PumpCalls /\ ~last.done
  /\ ~m_rcv_op.m_completed
  /\ proto.m_rd_op.pending /\ proto.m_rd_op.left < header_length

\* The arguments of the foreground typed callbacks made so far, in order.
FgSeen ==
  LET fg == SelectSeq(calls, LAMBDA c : c.cb = "msg")
  IN [k \in 1..Len(fg) |-> fg[k].args]

\* The stream w without its Notice frames.
StripNotices(w) == SelectSeq(w, LAMBDA f : f.type # "Notice")

\* The foreground typed callbacks that the frames of w give rise to.
FgOf(w) ==
  LET fg == SelectSeq(w, LAMBDA f : f.type \in ForegroundTypes /\ Accepted(f.type))
  IN [k \in 1..Len(fg) |-> <<fg[k].type, fg[k].body>>]

\* Number of frames whose payload has been read.
NPassed == IF proto.m_msg_state = "HEADER" THEN proto.hdrs ELSE proto.hdrs - 1

\* C7: the foreground typed callbacks, in their order and with their
\* payloads, are those of the frames read so far with the Notice frames
\* taken out: streams that differ only by Notice frames give the same ones.
C7_NoticeTransparency ==
  FgSeen = FgOf(StripNotices(SubSeq(wire, 1, NPassed)))

\* Two foreground messages with a Notice between them have been dispatched.
C7_Witness ==
  /\ Len(wire) = 3 /\ NPassed = 3
  /\ wire[2].type = "Notice"
  /\ Len(FgSeen) = 2
  /\ Count("notice", 2) = 1

\* C8: the pump call that hands an Error frame to error() ends with
\* message_end() of that frame as the last callback, no further header read,
\* and the operation completed and done.
C8_ErrorTerminates ==
  [][(/\ last'.call \in PumpCalls
      /\ \E k \in (Len(calls) + 1)..Len(calls') : calls'[k].cb = "error") =>
       /\ calls'[Len(calls')].cb = "message_end"
       /\ wire[calls'[Len(calls')].fr].type = "Error"
       /\ proto'.hdrs = calls'[Len(calls')].fr
       /\ ~process_next(m_rcv_op')
       /\ m_rcv_op'.m_completed
       /\ is_done(m_rcv_op')
       /\ last'.done]_vars

\* An Error frame that followed a Notice in the same stage has ended the
\* operation.
C8_Witness ==
  /\ LastDispatched
  /\ proto.hdrs = 2
  /\ wire[1].type = "Notice" /\ wire[2].type = "Error"
  /\ Count("error", 2) = 1
  /\ m_rcv_op # NoOp /\ is_done(m_rcv_op) /\ m_rcv_op.m_msg_type = "Error"

\* The receive operation in the slot has dispatched an Error frame, which is
\* the last frame read.
ErrorDispatched ==
  /\ m_rcv_op # NoOp
  /\ m_rcv_op.m_msg_type = "Error"
  /\ LastDispatched
  /\ wire[proto.hdrs].type = "Error"

\* C9: once a receive operation has dispatched an Error frame, nothing of
\* the stream after that frame has been read and no read is going on, and
\* cont() and wait() on it read no byte and make no callback: what follows
\* is read only after rcv_start.
C9_NothingAfterError ==
  [][ErrorDispatched =>
       /\ ~proto.m_rd_op.pending
       /\ consumed = TotalBytes(SubSeq(wire, 1, proto.hdrs))
       /\ last'.call \in PumpCalls =>
            /\ consumed' = consumed
            /\ calls' = calls
            /\ proto' = proto
            /\ m_rcv_op' = m_rcv_op]_vars

\* wait() was called on an operation that has dispatched an Error frame
\* while the stream holds a frame after it.
C9_Witness ==
  /\ ErrorDispatched
  /\ Len(wire) > proto.hdrs
  /\ last.call = "rcv_wait"

\* C10: an Error frame is dispatched with one call of error(), with the
\* code, sql_state and msg of the frame and severity 2, and no call of
\* do_process_msg() or notice(); error() is called for no other frame.
C10_ErrorCallback ==
  /\ \A i \in DOMAIN wire :
       wire[i].type = "Error" =>
         /\ Count("error", i) = (IF Passed(i) THEN 1 ELSE 0)
         /\ Count("msg", i) = 0
         /\ Count("notice", i) = 0
  /\ \A k \in DOMAIN calls :
       calls[k].cb = "error" =>
         LET err == wire[calls[k].fr] IN
         /\ err.type = "Error"
         /\ calls[k].args = <<err.body.code, SeverityError, err.body.sql_state, err.body.msg>>

\* Error frames of both severities have been dispatched.
C10_Witness ==
  \E i, j \in DOMAIN wire :
    /\ wire[i].type = "Error" /\ wire[i].body.severity = 0 /\ Count("error", i) = 1
    /\ wire[j].type = "Error" /\ wire[j].body.severity = 1 /\ Count("error", j) = 1

\* The error kinds other than the server's Error message that a receive
\* operation meets.
RaisedKinds ==
  {"Eos", "Io", "Oversize", "UnknownMessage", "UnexpectedMessage", "Decode"}

\* C11: a pump call (cont or wait) that hands an Error frame to error()
\* completes without raising an error, and error() is called for Error
\* frames only; every other error (a failed stream read, a rejected header,
\* an unknown or unexpected message, a payload that does not parse) is
\* raised by the pump call that ends the stage it occurred in, and by no
\* pump call that leaves the stage going on.
C11_ServerErrorOnlyByCallback ==
  [][last'.call \in PumpCalls =>
       LET new == (Len(calls) + 1)..Len(calls')
           ends == ~is_completed(m_rcv_op) /\ is_completed(m_rcv_op')
       IN /\ (\E k \in new : calls'[k].cb = "error") =>
               /\ last'.done
               /\ last'.err = NoError
          /\ \A k \in new :
               calls'[k].cb = "error" => wire[calls'[k].fr].type = "Error"
          /\ ends => /\ last'.err = m_rcv_op'.m_error
                     /\ last'.err.kind \in {"none"} \cup RaisedKinds
          /\ ~ends => last'.err = NoError
          /\ (last'.arg # <<>> /\ proto'.m_rd_op.pending) =>
               /\ ends
               /\ last'.err.kind = last'.arg[1]]_vars

\* One operation has handed an Error frame to error() and the next one has
\* raised the error of a payload that does not parse.
C11_Witness ==
  /\ Len(wire) = 2
  /\ Count("error", 1) = 1
  /\ last.call \in PumpCalls
  /\ last.err.kind = "Decode"

\* C12: next_msg() is EXPECTED for Error and for Notice whatever the
\* operation's do_next_msg() says, and for every other type it is what
\* do_next_msg() returns, which is UNEXPECTED in Op_rcv itself; an operation
\* that has read a header and gone on to the payload skips the message
\* exactly if next_msg() of its type is UNEXPECTED.
C12_HeaderClassification ==
  /\ \A v \in RcvVariants \cup PlainVariants, t \in MsgTypes :
       IF t \in {"Error", "Notice"}
         THEN next_msg(v, t) = "EXPECTED"
         ELSE next_msg(v, t) = do_next_msg(v, t)
  /\ \A t \in ForegroundTypes : next_msg("Op_rcv", t) = "UNEXPECTED"
  /\ (m_rcv_op # NoOp /\ m_rcv_op.m_stage = "PAYLOAD") =>
       /\ m_rcv_op.m_msg_type = wire[proto.hdrs].type
       /\ m_rcv_op.m_skip =
            (next_msg(m_rcv_op.variant, m_rcv_op.m_msg_type) = "UNEXPECTED")

\* Op_rcv itself has dispatched a Notice and is skipping the payload of an
\* Ok that follows it.
C12_Witness ==
  /\ m_rcv_op # NoOp /\ m_rcv_op.variant = "Op_rcv"
  /\ m_rcv_op.m_stage = "PAYLOAD"
  /\ m_rcv_op.m_msg_type = "Ok" /\ m_rcv_op.m_skip
  /\ Count("notice", 1) = 1

\* Number of frames whose payload has been read, with read side p.
NPassedOf(p) == IF p.m_msg_state = "HEADER" THEN p.hdrs ELSE p.hdrs - 1

\* C13: a frame for which next_msg() is UNEXPECTED has, while its payload is
\* read, the error UnexpectedMessage of its type saved and m_skip set; the
\* pump call that reads the last of its payload has made no callback for the
\* frame, has read the stream up to the next frame header and no further,
\* and raises the saved error.
C13_UnexpectedSkipped ==
  [][/\ (/\ m_rcv_op' # NoOp
         /\ m_rcv_op'.m_stage = "PAYLOAD"
         /\ next_msg(m_rcv_op'.variant, m_rcv_op'.m_msg_type) = "UNEXPECTED") =>
           /\ m_rcv_op'.m_skip
           /\ m_rcv_op'.m_error = Err("UnexpectedMessage", wire[proto'.hdrs].type)
     /\ last'.call \in PumpCalls =>
          \A i \in (NPassedOf(proto) + 1)..NPassedOf(proto') :
            next_msg(m_rcv_op.variant, wire[i].type) = "UNEXPECTED" =>
              /\ \A k \in DOMAIN calls' : calls'[k].fr # i
              /\ NPassedOf(proto') = i
              /\ proto'.m_msg_state = "HEADER" /\ ~proto'.m_rd_op.pending
              /\ consumed' = TotalBytes(SubSeq(wire, 1, i))
              /\ last'.done
              /\ last'.err = Err("UnexpectedMessage", wire[i].type)]_vars

\* Op_rcv itself has read a Row, which has a message class, and its two bytes
\* of payload, made no callback and raised UnexpectedMessage, while another
\* frame waits on the stream.
C13_Witness ==
  /\ Len(wire) = 2 /\ wire[1].type = "Row" /\ wire[1].psize = 2
  /\ m_rcv_op # NoOp /\ m_rcv_op.variant = "Op_rcv"
  /\ last.call \in PumpCalls
  /\ last.err = Err("UnexpectedMessage", "Row")
  /\ consumed = 7 /\ calls = <<>>

\* C14: a pump call of an operation whose next_msg() is STOP for the frame
\* whose header is read ends the stage there: the header is consumed, its
\* type and size are kept, no payload read is started and no callback made
\* for the frame.  rcv_start then starts no second header read, so that the
\* next bytes read are those of the frame's payload; every frame is
\* dispatched once and no byte of the stream is skipped or read twice.
C14_StopKeepsHeader ==
  [][/\ (/\ last'.call \in PumpCalls
         /\ ~is_completed(m_rcv_op)
         /\ proto'.m_msg_state = "PAYLOAD"
         /\ next_msg(m_rcv_op.variant, wire[proto'.hdrs].type) = "STOP") =>
           LET h == proto'.hdrs IN
           /\ last'.done /\ is_completed(m_rcv_op')
           /\ last'.err = NoError
           /\ ~proto'.m_rd_op.pending
           /\ consumed' = TotalBytes(SubSeq(wire, 1, h - 1)) + header_length
           /\ proto'.m_msg_type = wire[h].type
           /\ proto'.m_msg_size = wire[h].psize
           /\ \A k \in DOMAIN calls' : calls'[k].fr # h
     /\ (last'.call = "rcv_start" /\ proto.m_msg_state = "PAYLOAD") =>
           /\ proto' = proto
           /\ consumed' = consumed
     /\ (last'.call \in PumpCalls /\ proto.m_msg_state = "PAYLOAD") =>
           LET h == proto.hdrs
               end == TotalBytes(SubSeq(wire, 1, h))
           IN IF NPassedOf(proto') < h
                THEN consumed' <= end
                ELSE /\ consumed' >= end
                     /\ Cardinality({k \in DOMAIN calls' :
                                       /\ calls'[k].cb = "message_begin"
                                       /\ calls'[k].fr = h})
                          = (IF Accepted(wire[h].type) THEN 1 ELSE 0)
     /\ FramingAligned
     /\ DispatchedOnce]_vars

\* An operation has stopped at the header of a Row and rcv_start has put
\* a Rcv_rows operation in its place, which has the payload still to read.
C14_Witness ==
  /\ last.call = "rcv_start" /\ last.destroyed /\ last.created
  /\ m_rcv_op.variant = "Rcv_rows"
  /\ proto.m_msg_state = "PAYLOAD" /\ ~proto.m_rd_op.pending
  /\ proto.m_msg_type = "Row"
  /\ \A k \in DOMAIN calls : calls[k].fr # proto.hdrs

\* C15 as stated: an error saved during a stage is raised by the pump call
\* (cont or wait) that completes the stage, and is cleared when it is raised:
\* the operation then holds no saved error; cont and wait on the operation
\* after that raise nothing.
C15_Original ==
  [][last'.call \in PumpCalls =>
       /\ last'.err # NoError =>
            /\ last'.done
            /\ ~is_completed(m_rcv_op) /\ is_completed(m_rcv_op')
            /\ m_rcv_op'.m_error = NoError
       /\ is_completed(m_rcv_op) => last'.err = NoError]_vars

\* C15 amended: an error saved during a stage is raised by the pump call
\* that completes the stage and by no other; throw_saved_error() leaves it
\* saved in m_error.  It is not raised again because cont and wait on the
\* completed operation do nothing, and because the next rcv_start destroys
\* the operation, which is done, and constructs one with no saved error.
C15_Amended ==
  [][/\ last'.call \in PumpCalls =>
          /\ last'.err # NoError =>
               /\ last'.done
               /\ ~is_completed(m_rcv_op) /\ is_completed(m_rcv_op')
               /\ m_rcv_op'.m_error = last'.err
          /\ (~is_completed(m_rcv_op) /\ is_completed(m_rcv_op')) =>
               last'.err = m_rcv_op'.m_error
          /\ is_completed(m_rcv_op) =>
               /\ last'.err = NoError
               /\ m_rcv_op' = m_rcv_op
     /\ (/\ last'.call = "rcv_start"
         /\ m_rcv_op # NoOp
         /\ is_completed(m_rcv_op)
         /\ m_rcv_op.m_error # NoError) =>
          /\ last'.destroyed /\ last'.created
          /\ m_rcv_op'.m_error = NoError]_vars

\* cont() or wait() was called on an operation whose stage had ended with
\* its saved error raised: the error is still saved and was not raised again.
C15_Witness ==
  /\ last.call \in PumpCalls
  /\ last.err = NoError
  /\ m_rcv_op # NoOp /\ is_completed(m_rcv_op)
  /\ m_rcv_op.m_error.kind \in {"UnknownMessage", "UnexpectedMessage", "Decode"}

\* The callbacks that carry the contents of a message.
TypedCallbacks == {"msg", "notice", "error"}

Delivered == {"Error", "Notice", "Ok", "Row"}

\* The callback that carries the contents of a message of the given type.
TypedCallbackOf(type) ==
  CASE type = "Error" -> "error"
    [] type = "Notice" -> "notice"
    [] OTHER -> "msg"

\* C17: over all stages and operations, the callbacks that carry message
\* contents are those of the frames read so far whose type is delivered, one
\* for each frame and in the order of the frames on the stream; a frame of
\* another type is left out only by a pump call that raises an error for it.
C17_OrderPreserved ==
  [][/\ LET typed == SelectSeq(calls, LAMBDA c : c.cb \in TypedCallbacks)
            read == SelectSeq([i \in 1..NPassed |-> i],
                              LAMBDA i : wire[i].type \in Delivered)
        IN /\ Len(typed) = Len(read)
           /\ \A k \in 1..Len(typed) :
                /\ typed[k].fr = read[k]
                /\ typed[k].cb = TypedCallbackOf(wire[read[k]].type)
                /\ typed[k].cb = "msg" =>
                     typed[k].args = <<wire[read[k]].type, wire[read[k]].body>>
     /\ last'.call \in PumpCalls =>
          \A i \in (NPassedOf(proto) + 1)..NPassedOf(proto') :
            wire[i].type \notin Delivered =>
              /\ last'.err.kind \in {"UnexpectedMessage", "UnknownMessage"}
              /\ last'.err.type = wire[i].type]_vars

\* Three frames have been read by three operations and a callback with the
\* contents of each has been made.
C17_Witness ==
  /\ Len(wire) = 3 /\ NPassed = 3
  /\ Count("msg", 1) = 1 /\ Count("error", 2) = 1 /\ Count("msg", 3) = 1
  /\ last.call \in PumpCalls /\ last.done

\* C18: the pump call in which the header read of a frame with size field 0
\* or above max_rd_size completes raises Oversize: the stage ends with the
\* header consumed, no payload read started and no callback made for the
\* frame; the payload read that is going on is never one of more than
\* max_rd_size bytes.
C18_OversizeRejected ==
  [][/\ last'.call \in PumpCalls =>
          \A h \in (proto.hdrs + 1)..proto'.hdrs :
            (wire[h].psize + 1 = 0 \/ wire[h].psize + 1 > max_rd_size) =>
              /\ h = proto'.hdrs
              /\ last'.done
              /\ last'.err = Err("Oversize", wire[h].type)
              /\ ~proto'.m_rd_op.pending
              /\ consumed' = TotalBytes(SubSeq(wire, 1, h - 1)) + header_length
              /\ \A k \in DOMAIN calls' : calls'[k].fr # h
     /\ (proto'.m_msg_state = "PAYLOAD" /\ proto'.m_rd_op.pending) =>
          /\ proto'.m_msg_size >= 0
          /\ proto'.m_msg_size + 1 <= max_rd_size
          /\ proto'.m_rd_op.left <= proto'.m_msg_size]_vars

\* After a frame that was dispatched, the header of a frame with size field
\* max_rd_size + 1 has been read and rejected.
C18_Witness ==
  /\ proto.hdrs = 2
  /\ wire[2].psize = max_rd_size
  /\ Count("message_end", 1) = 1
  /\ last.call \in PumpCalls
  /\ last.err.kind = "Oversize"
  /\ ~proto.m_rd_op.pending

\* C19 as stated: the stage of the receive operation is HEADER only while
\* the engine awaits a frame header, and PAYLOAD only when the header of the
\* current frame has been read, its type and size known.
C19_Original ==
  m_rcv_op # NoOp =>
    /\ m_rcv_op.m_stage = "HEADER" => proto.m_msg_state = "HEADER"
    /\ m_rcv_op.m_stage = "PAYLOAD" =>
         /\ proto.m_msg_state = "PAYLOAD"
         /\ m_rcv_op.m_msg_type = wire[proto.hdrs].type
         /\ proto.m_msg_size = wire[proto.hdrs].psize

\* C19 amended: the stage is PAYLOAD only when the header of the current
\* frame has been read, its type and size known.  rcv_start sets the stage
\* to HEADER and leaves the engine's read state as it is, so the stage is
\* HEADER also while the header of the current frame is already read: this
\* comes about by rcv_start only (after a STOP, or in the middle of a
\* payload) and lasts until a pump call gets on with the frame.
C19_Amended ==
  [][/\ m_rcv_op' # NoOp =>
          /\ m_rcv_op'.m_stage = "PAYLOAD" =>
               /\ proto'.m_msg_state = "PAYLOAD"
               /\ m_rcv_op'.m_msg_type = wire[proto'.hdrs].type
               /\ proto'.m_msg_type = wire[proto'.hdrs].type
               /\ proto'.m_msg_size = wire[proto'.hdrs].psize
          /\ (m_rcv_op'.m_stage = "HEADER" /\ proto'.m_msg_state = "PAYLOAD") =>
               \/ last'.call = "rcv_start"
               \/ /\ m_rcv_op # NoOp
                  /\ m_rcv_op.m_stage = "HEADER"
                  /\ proto.m_msg_state = "PAYLOAD"
                  /\ proto'.hdrs = proto.hdrs
     /\ last'.call = "rcv_start" =>
          /\ m_rcv_op'.m_stage = "HEADER"
          /\ proto'.m_msg_state = proto.m_msg_state]_vars

\* After a STOP at a Row header, rcv_start has put a Rcv_reply operation in
\* the slot: its stage is HEADER while the header of the Row is read.
C19_Witness ==
  /\ last.call = "rcv_start" /\ last.destroyed
  /\ m_rcv_op.variant = "Rcv_reply"
  /\ m_rcv_op.m_stage = "HEADER"
  /\ proto.m_msg_state = "PAYLOAD" /\ ~proto.m_rd_op.pending
  /\ proto.m_msg_type = "Row"

\* The frame with number i has a type tag for which the receiving side has
\* no message class.
UnknownTag(i) == wire[i].type = "Unk"

\* The pump call of this step has read the last of the payload of frame i,
\* made no callback for it, ended the stage with the read side ready for
\* the next frame header, and raised an error of the given kind.
DrainedWith(kind, i) ==
  /\ NPassedOf(proto') = i
  /\ proto'.m_msg_state = "HEADER" /\ ~proto'.m_rd_op.pending
  /\ consumed' = TotalBytes(SubSeq(wire, 1, i))
  /\ \A k \in DOMAIN calls' : calls'[k].fr # i
  /\ last'.done
  /\ last'.err = Err(kind, wire[i].type)

C21_CancelNotSupported ==
  [][last'.call \in CancelCalls =>
       /\ last'.err = Err("NotImplemented", "none")
       /\ m_rcv_op' = m_rcv_op /\ m_snd_op' = m_snd_op
       /\ proto' = proto /\ wr' = wr /\ consumed' = consumed
       /\ calls' = calls]_vars

\* A send operation in flight was cancelled while the receive operation was
\* in the middle of a frame: both are still not completed and the stream
\* operations still pending.
C21_Witness ==
  /\ last.call = "snd_cancel" /\ last.err.kind = "NotImplemented"
  /\ m_snd_op # NoOp /\ ~is_completed(m_snd_op) /\ wr.m_wr_op
  /\ m_rcv_op # NoOp /\ ~is_completed(m_rcv_op)
  /\ proto.m_msg_state = "PAYLOAD" /\ proto.m_rd_op.pending

\* The receive operation is running and frame number i is the next one whose
\* payload has not been read to the end.
Reading(i) ==
  /\ i \in DOMAIN wire
  /\ m_rcv_op # NoOp /\ ~is_completed(m_rcv_op)
  /\ NPassedOf(proto) = i - 1

\* The running operation expects frame number i and has a decoder for it.
Decodable(i) ==
  /\ next_msg(m_rcv_op.variant, wire[i].type) = "EXPECTED"
  /\ HasDecoder(wire[i].type)

\* The stage of the running operation ends once frame number i is processed.
EndsStage(i) == ~process_next([m_rcv_op EXCEPT !.m_msg_type = wire[i].type])

\* Frame number i has been read to the end and dispatched once, and if the
\* stage ends with it, the last cont() has returned done.
DecodedOnce(i) ==
  /\ Passed(i)
  /\ Count("message_begin", i) = 1 /\ Count("message_end", i) = 1
  /\ \E k \in DOMAIN calls :
       calls[k].fr = i /\ calls[k].cb = TypedCallbackOf(wire[i].type)
  /\ EndsStage(i) => last.call = "rcv_cont" /\ last.done /\ is_completed(m_rcv_op)

\* C22: fragmented read: while the operation reads a frame it expects, each
\* cont() that ends before the stream has delivered all bytes of the frame
\* returns not done and makes no callback; no frame is ever dispatched
\* twice; and with a stream that delivers all its bytes in the end, repeated
\* cont() calls lead to the frame decoded and dispatched once, the cont()
\* that ends the stage returning done.
C22_FragmentedRead ==
  /\ [][last'.call = "rcv_cont" =>
         /\ \A i \in DOMAIN wire :
              (Reading(i) /\ Decodable(i)
                 /\ consumed' < TotalBytes(SubSeq(wire, 1, i)))
                => (~last'.done /\ calls' = calls /\ ~is_completed(m_rcv_op'))
         /\ \A i \in DOMAIN wire :
              Cardinality({k \in DOMAIN calls' :
                 calls'[k].cb = "message_begin" /\ calls'[k].fr = i}) <= 1]_vars
  /\ \A i \in 1..MaxFragFrames :
       (Reading(i) /\ Decodable(i)) ~> DecodedOnce(i)

\* A cont() has returned not done in the middle of the payload of a Row that
\* Rcv_rows expects: the header and one of the two payload bytes have
\* arrived, and no callback has been made.
C22_Witness ==
  /\ Len(wire) = 1 /\ wire[1].type = "Row"
  /\ Reading(1) /\ Decodable(1)
  /\ m_rcv_op.variant = "Rcv_rows"
  /\ last.call = "rcv_cont" /\ ~last.done
  /\ proto.m_msg_state = "PAYLOAD" /\ proto.m_rd_op.pending /\ proto.m_rd_op.left = 1
  /\ consumed = header_length + 1
  /\ calls = <<>>

\* The send operation of this step is the one of the state before it: the
\* step is not a snd_start that has constructed a new operation.
SameSndOp == ~(last'.call = "snd_start" /\ last'.created)

\* C23: a send operation hands its message to write_msg() once, when it is
\* constructed: the write buffer is filled by the snd_start that constructs
\* the operation and changes in no other step.  cont() of an operation that
\* is not completed returns true with the operation completed if wr_cont()
\* reports the write done, and false with the operation not completed and
\* the write still pending if not.  wait() leaves the operation completed.
\* A completed operation never becomes not completed.
C23_SendOp ==
  [][/\ (last'.call = "snd_start" /\ last'.created) =>
          /\ wr' = write_msg(wr, last'.arg[1])
          /\ m_snd_op' = NewOpSnd /\ ~is_completed(m_snd_op')
     /\ SameSndOp => wr'.m_wr_buf = wr.m_wr_buf
     /\ (last'.call = "snd_cont" /\ ~is_completed(m_snd_op)) =>
          /\ last'.done = is_completed(m_snd_op')
          /\ last'.done = ~wr'.m_wr_op
          /\ wr.m_wr_op
     /\ last'.call = "snd_wait" => (is_completed(m_snd_op') /\ ~wr'.m_wr_op)
     /\ (m_snd_op # NoOp /\ is_completed(m_snd_op) /\ SameSndOp) =>
          /\ m_snd_op' = m_snd_op
          /\ last'.call \in {"snd_cont", "snd_wait"} => last'.done
    ]_vars

\* cont() of the send operation that carries a Close has returned true: the
\* operation is completed and the write of the message is over.
C23_Witness ==
  /\ last.call = "snd_cont" /\ last.done
  /\ m_snd_op # NoOp /\ is_completed(m_snd_op)
  /\ wr = [m_wr_buf |-> "Close", m_wr_op |-> FALSE]

\* C24: storing another result s in a Result d overwrites the result d held:
\* afterwards d refers to the implementation s referred to and its position
\* is 0; the implementation d held before, if it is not the one s referred
\* to, is no longer referenced by d, and d owns nothing but the
\* implementation it took from s.
C24_StoreOverwrites ==
  [][last'.call = "store" =>
       LET d == last'.arg[1]
           s == last'.arg[2]
       IN d # s =>
            /\ results'[d].m_impl = results[s].m_impl
            /\ results'[d].m_pos = 0
            /\ results'[d].m_owns_impl = results[s].m_owns_impl
            /\ results[d].m_impl # results[s].m_impl =>
                 results'[d].m_impl # results[d].m_impl]_vars

\* Object 1 has stored the result of object 2: it refers to and owns
\* implementation 2 at position 0, object 2 has given it up, and no object
\* refers to implementation 1 any more.
C24_Witness ==
  /\ last.call = "store" /\ last.arg = <<1, 2>>
  /\ results[1] = ReplyResult(2, 0)
  /\ results[2].m_impl = 2 /\ ~results[2].m_owns_impl
  /\ \A o \in Objs : results[o].m_impl # 1

\* The objects of rs that own implementation i.
Owners(rs, i) == {o \in Objs : rs[o].live /\ rs[o].m_impl = i /\ rs[o].m_owns_impl}

PassedInStep == (NPassedOf(proto) + 1)..NPassedOf(proto')

PtrCallbacks == {"val", "op", "call"}

\* The call of this step was made on a Safe_prc.
SafeCallStep ==
  /\ safe # NoSafe /\ safe' = safe
  /\ [cb |-> last'.call, args |-> last'.arg] \in ScalarCalls \cup ExprCalls

\* C26: Safe_prc null safety: a call on a Safe_prc that wraps no processor
\* makes no callback, and val(), op() and call() return a Safe_prc that wraps
\* no processor; a call on a Safe_prc that wraps a processor makes exactly
\* one callback, on that processor, of the same name and with the same
\* arguments, and val(), op() and call() return a Safe_prc of what the
\* processor returned.
C26_SafePrcNullSafety ==
  [][SafeCallStep =>
       IF safe.m_prc = NullPrc
         THEN /\ calls' = calls
              /\ IF last'.call \in PtrCallbacks
                   THEN last'.ret # NoSafe /\ last'.ret.m_prc = NullPrc
                   ELSE last'.ret = NoSafe
         ELSE /\ Len(calls') = Len(calls) + 1
              /\ SubSeq(calls', 1, Len(calls)) = calls
              /\ LET got == calls'[Len(calls')]
                 IN /\ got.prc = safe.m_prc
                    /\ got.cb = last'.call
                    /\ got.args = last'.arg
                    /\ IF last'.call \in PtrCallbacks
                         THEN last'.ret # NoSafe /\ last'.ret.m_prc = got.ret
                         ELSE last'.ret = NoSafe]_vars

\* id(name, db_obj, path) was called on a Safe_prc of an expression
\* processor, which got it with its three arguments, after a val() that the
\* processor answered with NULL.
C26_Witness ==
  /\ safe = Safe_prc("Expr", "expr_prc")
  /\ last.call = "id" /\ Len(last.arg) = 3
  /\ Len(calls) = 2
  /\ calls[1].cb = "val" /\ calls[1].ret = NullPrc
  /\ calls[2] = Received("expr_prc", "id", last.arg, "void")

\* The operations the engine holds.
HeldOps == {m_rcv_op, m_snd_op} \ {NoOp}

\* C28: in every reachable state, for the send and the receive operation
\* alike, is_done() implies is_completed(): no operation is reported wholly
\* done while its current stage is reported not completed.
C28_DoneImpliesCompleted ==
  \A op \in HeldOps : is_done(op) => is_completed(op)

\* The receive operation has completed its stage and is done, while the send
\* operation, still writing, is neither completed nor done.
C28_Witness ==
  /\ m_rcv_op # NoOp /\ is_completed(m_rcv_op) /\ is_done(m_rcv_op)
  /\ m_snd_op # NoOp /\ ~is_completed(m_snd_op) /\ ~is_done(m_snd_op)
  /\ wr.m_wr_op

=============================================================================
